---- MODULE Spec2Model ----
(***************************************************************************)
(* Model of src/obi_bot.py: the low-liquidity arbitrage monitor.           *)
(*                                                                         *)
(* Units.  Python floats are modelled in fixed point, with value sets in   *)
(* which every product and quotient of the code is exact:                  *)
(*   prices, notionals      milli-USDT            (10 USDT = 10000)        *)
(*   base quantities        milli-units           (1 coin  = 1000)         *)
(*   profit, fee'd amounts  micro-USDT            (5 USDT  = 5000000)      *)
(*   spread_pct             1e-4 percent          (1.0 %   = 10000)        *)
(*   profit_pct             0.01 percent, truncated (display only)         *)
(*   waits of http_get      1e-4 seconds          (0.6 s   = 6000)         *)
(*   fees                   per mille             (0.002   = 2)            *)
(*   24h volume, seconds    whole units                                    *)
(* Python None / optional values are records with an is_none flag, so that *)
(* truthiness is computed the way Python computes it.                      *)
(***************************************************************************)
EXTENDS Integers, Sequences, FiniteSets, TLC

VARIABLES
    \* ---- run(): position and locals of the scan loop
    pc,              \* position inside run()
    exIdx,           \* index of `for ex in EXCHANGES`
    topo,            \* ex -> {sym: (bid, ask)}
    lowliq_symbols,  \* step 2 result (check_symbols is an alias)
    spreads,         \* step 3 result
    candIdx,         \* index of the step 4 loop over the sorted slice
    buy_depth,       \* step 4: depth tuple of the buy exchange
    sell_depth,      \* step 4: depth tuple of the sell exchange
    alerts,          \* step 4 result
    alertIdx,        \* index of the step 5 loop over alerts
    err,             \* exception bound by the handler that is running
    last_hb,         \* time of the last heartbeat
    now,             \* time.time()
    scanNo,          \* number of scan iterations begun
    \* ---- the world outside the process
    telegram,        \* latest call of send_telegram and its outcome
    csvFile,         \* the file CSV_LOG
    \* ---- http_get(): position and locals
    h_pc, attempt, wait, h_log, h_slept, h_result

runVars  == <<pc, exIdx, topo, lowliq_symbols, spreads, candIdx, buy_depth,
              sell_depth, alerts, alertIdx, err, last_hb, now, scanNo,
              telegram, csvFile>>
httpVars == <<h_pc, attempt, wait, h_log, h_slept, h_result>>
vars     == <<runVars, httpVars>>

-----------------------------------------------------------------------------
(* Configuration (module level of obi_bot.py)                              *)

SCAN_INTERVAL       == 60
HEARTBEAT_INTERVAL  == 300
DEPTH_LEVELS        == 6
REPORT_LIMIT        == 30
MIN_SPREAD_PCT      == 10000
MIN_PROFIT_USDT     == 5000000
MIN_NOTIONAL_USDT   == 10000
MAX_AVG_VOLUME_USDT == 50000
MAX_RETRIES         == 3

\* EXCHANGES env var: three of the five supported exchanges, in list order
\* (mexc is fetched like binance, bitget like kucoin and okx).
EXCHANGES == <<"binance", "kucoin", "okx">>

\* WATCHLIST env var: a two-symbol watchlist.
symbols == <<"SOLUSDT", "AVAXUSDT">>

\* TELEGRAM_TOKEN and CHAT_ID are set.
TelegramConfigured == TRUE

\* Number of scan iterations explored.
MaxScans == 2

-----------------------------------------------------------------------------
(* Generic helpers                                                         *)

Range(s) == {s[i] : i \in 1..Len(s)}

Take(s, n) == SubSeq(s, 1, IF Len(s) < n THEN Len(s) ELSE n)

Min2(a, b) == IF a < b THEN a ELSE b

SetMin(S) == CHOOSE x \in S : \A y \in S : x <= y

\* round(x, 2) of an amount in milli-USDT: to the nearest cent.
Round2(x) == ((x + 5) \div 10) * 10


-----------------------------------------------------------------------------
(* Python optional values                                                  *)

\* A list of (price, qty) levels, or None.
NoneList == [is_none |-> TRUE, items |-> <<>>]

SomeList(l) == [is_none |-> FALSE, items |-> l]

\* A depth variable of run(): None, or the 2-tuple (bids, asks) an adapter
\* returned, whose members are lists or None.
NoDepth == [is_none |-> TRUE, bids |-> NoneList, asks |-> NoneList]

DepthTuple(b, a) == [is_none |-> FALSE, bids |-> b, asks |-> a]

\* bool(v) of a depth variable: a 2-tuple is truthy whatever its members
\* are, only None is falsy.
Truthy(d) == ~d.is_none

-----------------------------------------------------------------------------
(* estimate_buy_from_asks / estimate_sell_on_bids / evaluate_pair          *)

RECURSIVE BuyLoop(_, _, _, _, _, _)
BuyLoop(asks, i, remain, acquired, spent, levels_used) ==
    IF i > Len(asks) \/ remain <= 0
    THEN [amount |-> spent, base |-> acquired,
          avg |-> IF acquired > 0 THEN (spent * 1000) \div acquired ELSE 0,
          levels |-> levels_used]
    ELSE LET price == asks[i][1]
             qty == asks[i][2]
             level_notional == (price * qty) \div 1000
             use == Min2(level_notional, remain)
             qty_used == (use * 1000) \div price
         IN BuyLoop(asks, i + 1, remain - use, acquired + qty_used,
                    spent + use, Append(levels_used, <<price, qty_used, use>>))

\* spend up to target_notional USDT buying base across asks
estimate_buy_from_asks(asks, target_notional) ==
    BuyLoop(asks, 1, target_notional, 0, 0, <<>>)

RECURSIVE SellLoop(_, _, _, _, _, _)
SellLoop(bids, i, remain, received, sold, levels_used) ==
    IF i > Len(bids) \/ remain <= 0
    THEN [amount |-> received, base |-> sold,
          avg |-> IF sold > 0 THEN (received * 1000) \div sold ELSE 0,
          levels |-> levels_used]
    ELSE LET price == bids[i][1]
             qty == bids[i][2]
             use_qty == Min2(qty, remain)
             notional == (use_qty * price) \div 1000
         IN SellLoop(bids, i + 1, remain - use_qty, received + notional,
                     sold + use_qty, Append(levels_used, <<price, use_qty, notional>>))

\* sell up to target_base_qty base across bids
estimate_sell_on_bids(bids, target_base_qty) ==
    SellLoop(bids, 1, target_base_qty, 0, 0, <<>>)

NoExec == [amount |-> 0, base |-> 0, avg |-> 0, levels |-> <<>>]

\* best = {"notional":0,"profit":-1e9,"profit_pct":-999.0,...}; the profit
\* sentinel lies below every attainable profit.
InitialBest ==
    [notional |-> 0, profit |-> -1000000000, profit_pct |-> -99900,
     has_exec |-> FALSE, buy_exec |-> NoExec, sell_exec |-> NoExec]

\* candidate_notions, filtered to c > 1.0
CandidateNotions(buy_asks, sell_bids, capital_limit) ==
    LET fromAsks == {Round2((l[1] * l[2]) \div 1000) : l \in Range(Take(buy_asks, DEPTH_LEVELS))}
        fromBids == {Round2((l[1] * l[2]) \div 1000) : l \in Range(Take(sell_bids, DEPTH_LEVELS))}
        fromCap  == {Round2((capital_limit * f) \div 100) : f \in {5, 10, 25, 50, 100}}
    IN {c \in fromAsks \cup fromBids \cup fromCap : c > 1000}

\* One iteration of `for notional in cand`.
EvalCandidate(best, notional, buy_asks, sell_bids, fee_buy, fee_sell, capital_limit) ==
    IF notional > capital_limit THEN best
    ELSE LET buy == estimate_buy_from_asks(buy_asks, notional)
         IN IF buy.base <= 0 THEN best
            ELSE LET sell == estimate_sell_on_bids(sell_bids, buy.base)
                 IN IF sell.base <= 0 THEN best
                    ELSE LET cost_with_fee == buy.amount * (1000 + fee_buy)
                             recv_after_fee == sell.amount * (1000 - fee_sell)
                             profit == recv_after_fee - cost_with_fee
                             profit_pct ==
                                 IF cost_with_fee > 0
                                 THEN ((profit \div 1000) * 10000) \div (cost_with_fee \div 1000)
                                 ELSE 0
                         IN IF profit > best.profit /\ profit > 0
                            THEN [notional |-> buy.amount, profit |-> profit,
                                  profit_pct |-> profit_pct, has_exec |-> TRUE,
                                  buy_exec |-> buy, sell_exec |-> sell]
                            ELSE best

RECURSIVE EvalLoop(_, _, _, _, _, _, _)
EvalLoop(cand, best, buy_asks, sell_bids, fee_buy, fee_sell, capital_limit) ==
    IF cand = {} THEN best
    ELSE LET notional == SetMin(cand)
         IN EvalLoop(cand \ {notional},
                     EvalCandidate(best, notional, buy_asks, sell_bids,
                                   fee_buy, fee_sell, capital_limit),
                     buy_asks, sell_bids, fee_buy, fee_sell, capital_limit)

\* find best buy->sell executable notional and profit
evaluate_pair(buy_asks, sell_bids, fee_buy, fee_sell, capital_limit) ==
    EvalLoop(CandidateNotions(buy_asks, sell_bids, capital_limit), InitialBest,
             buy_asks, sell_bids, fee_buy, fee_sell, capital_limit)

\* evaluate_pair subscripts both arguments first: None raises TypeError.
evaluate_pair_raises(buy_asks, sell_bids) ==
    buy_asks.is_none \/ sell_bids.is_none

-----------------------------------------------------------------------------
(* Step 3: best ask / best bid across exchanges                            *)

SymbolSet == Range(symbols)

ExchangeSet == Range(EXCHANGES)

NoQuote == [has |-> FALSE, bid |-> 0, ask |-> 0]

Quote(b, a) == [has |-> TRUE, bid |-> b, ask |-> a]

EmptyMarket == [s \in SymbolSet |-> NoQuote]

NoMarket == [present |-> FALSE, market |-> EmptyMarket]

\* `for ex, market in topo.items()`: insertion order, which is the order of
\* EXCHANGES because step 1 inserts each exchange at most once, in that order.
RECURSIVE BestLoop(_, _, _, _)
BestLoop(tp, s, i, acc) ==
    IF i > Len(EXCHANGES) THEN acc
    ELSE LET ex == EXCHANGES[i]
             q == tp[ex].market[s]
         IN IF ~(tp[ex].present /\ q.has) THEN BestLoop(tp, s, i + 1, acc)
            ELSE LET a1 == IF q.ask # 0 /\ q.ask < acc.best_ask
                           THEN [acc EXCEPT !.best_ask = q.ask, !.best_ask_ex = ex]
                           ELSE acc
                     a2 == IF q.bid # 0 /\ q.bid > a1.best_bid
                           THEN [a1 EXCEPT !.best_bid = q.bid, !.best_bid_ex = ex]
                           ELSE a1
                 IN BestLoop(tp, s, i + 1, a2)

\* best_ask = 1e18, best_bid = -1.0, both exchanges None
BestOf(tp, s) ==
    BestLoop(tp, s, 1, [best_ask |-> 2000000000, best_ask_ex |-> "None",
                        best_bid |-> -1000, best_bid_ex |-> "None"])

\* As if line 381 did not compare the two exchanges.
SpreadCondition_SameAllowed(b) ==
    b.best_ask_ex # "None" /\ b.best_bid_ex # "None"

\* The condition of line 381.
SpreadCondition(b) ==
    b.best_ask_ex # "None" /\ b.best_bid_ex # "None" /\ b.best_ask_ex # b.best_bid_ex

SpreadEntry(s, b) ==
    [s |-> s, a_price |-> b.best_ask, a_ex |-> b.best_ask_ex,
     b_price |-> b.best_bid, b_ex |-> b.best_bid_ex,
     spc |-> ((b.best_bid - b.best_ask) * 1000000) \div b.best_ask]

RECURSIVE SpreadLoop(_, _, _, _)
SpreadLoop(tp, check_symbols, i, acc) ==
    IF i > Len(check_symbols) THEN acc
    ELSE LET s == check_symbols[i]
             b == BestOf(tp, s)
         IN SpreadLoop(tp, check_symbols, i + 1,
                       IF SpreadCondition(b) THEN Append(acc, SpreadEntry(s, b)) ELSE acc)

ComputeSpreadList(tp, check_symbols) == SpreadLoop(tp, check_symbols, 1, <<>>)

\* sorted(spreads, key=lambda x: x[5], reverse=True): stable, descending.
RECURSIVE InsertDesc(_, _)
InsertDesc(sorted, e) ==
    IF sorted = <<>> THEN <<e>>
    ELSE IF Head(sorted).spc >= e.spc
         THEN <<Head(sorted)>> \o InsertDesc(Tail(sorted), e)
         ELSE <<e>> \o sorted

RECURSIVE SortDesc(_)
SortDesc(l) ==
    IF l = <<>> THEN <<>>
    ELSE InsertDesc(SortDesc(SubSeq(l, 1, Len(l) - 1)), l[Len(l)])

\* The sequence step 4 iterates.
Candidates(sp) == Take(SortDesc(sp), REPORT_LIMIT)


-----------------------------------------------------------------------------
(* Responses of the exchanges: the inputs of a scan                        *)

MkMarket(q1, q2) == [s \in SymbolSet |-> IF s = symbols[1] THEN q1 ELSE q2]

QLow  == Quote(9900, 10000)
QMid  == Quote(10050, 10150)
QHigh == Quote(11000, 11100)
QTop  == Quote(12000, 12100)
QZero == Quote(0, 0)

\* Top-of-book quotes one exchange may report for the watchlist; a symbol
\* without a quote is one the exchange does not list or whose fetch failed.
TickerMaps ==
    { EmptyMarket,
      MkMarket(QLow, QLow),
      MkMarket(QHigh, QTop),
      MkMarket(QMid, NoQuote),
      MkMarket(QZero, QHigh) }

\* What an all-tickers endpoint answers: no usable answer after the retries
\* of http_get ("fail"), a body of an unexpected shape ("bad"), or tickers.
AllTickerResponses ==
    {[kind |-> "fail", market |-> EmptyMarket], [kind |-> "bad", market |-> EmptyMarket]}
    \cup {[kind |-> "ok", market |-> m] : m \in TickerMaps}

\* Order books (bids, asks) a depth endpoint may report, best level first.
BookLow  == [bids |-> << <<9900, 10000>> >>,  asks |-> << <<10000, 10000>> >>]
BookHigh == [bids |-> << <<10500, 10000>> >>, asks |-> << <<12500, 640>> >>]
BookRich == [bids |-> << <<25000, 1000>> >>,  asks |-> << <<40000, 1000>> >>]

\* What a depth endpoint answers: no usable answer after the retries of
\* http_get ("fail"), a body that does not parse ("bad"), or a book.
DepthResponses ==
    {[kind |-> "fail", bids |-> <<>>, asks |-> <<>>], [kind |-> "bad", bids |-> <<>>, asks |-> <<>>]}
    \cup {[kind |-> "ok", bids |-> b.bids, asks |-> b.asks] : b \in {BookLow, BookHigh, BookRich}}

\* fetch_<exchange>_depth: (None, None) when http_get gave nothing, an
\* exception when the body does not parse, else both sides cut to DEPTH_LEVELS.
fetch_depth(resp) ==
    IF resp.kind = "fail" THEN [raises |-> FALSE, value |-> DepthTuple(NoneList, NoneList)]
    ELSE IF resp.kind = "bad" THEN [raises |-> TRUE, value |-> NoDepth]
    ELSE [raises |-> FALSE,
          value |-> DepthTuple(SomeList(Take(resp.bids, DEPTH_LEVELS)),
                               SomeList(Take(resp.asks, DEPTH_LEVELS)))]

\* fetch_binance_24h: None, or the quote volume.
VolResponses ==
    {[is_none |-> TRUE, vol |-> 0]} \cup {[is_none |-> FALSE, vol |-> v] : v \in {0, 40000, 60000}}

-----------------------------------------------------------------------------
(* send_telegram and log_to_csv                                            *)

NoMessage == [kind |-> "none", lines |-> <<>>, ts |-> 0]

\* send_telegram(text): without credentials it only prints; otherwise one
\* POST is attempted.  A failed POST is caught and printed (lines 51-52), so
\* its outcome changes nothing the program can read: `telegram` is the
\* latest message whose POST was attempted.  ts is the utcnow() stamp the
\* title of an alert message carries (0 for the other messages).
send_telegram(tg, kind, lines, ts) ==
    IF ~TelegramConfigured THEN tg
    ELSE [kind |-> kind, lines |-> lines, ts |-> ts]

\* A row of the file is modelled by its "symbol" column.
HeaderRow == "symbol"

\* The row of line 418.
CsvRow(a) == a.s

\* As if the file were opened with mode "w".
log_to_csv_truncate(f, row) ==
    [exists |-> TRUE, rows |-> IF f.exists THEN <<row>> ELSE <<HeaderRow, row>>]

\* log_to_csv(row): append mode; the header goes first into a new file.
log_to_csv(f, row) ==
    [exists |-> TRUE,
     rows |-> IF f.exists THEN Append(f.rows, row) ELSE <<HeaderRow, row>>]

\* The lines of the alert message: a title, then three lines per alert, the
\* first of which starts with the symbol (a line is modelled by its first
\* word).
RECURSIVE AlertLines(_)
AlertLines(al) ==
    IF al = <<>> THEN <<"title">>
    ELSE AlertLines(SubSeq(al, 1, Len(al) - 1))
         \o <<al[Len(al)].s, "buy_levels", "sell_levels">>

-----------------------------------------------------------------------------
(* run()                                                                   *)

\* As if log_to_csv were called outside the try of line 306.
OnException_CsvOutsideTry(where) ==
    IF where = "adapter" THEN "adapter_handler"
    ELSE IF where = "csv" THEN "raised" ELSE "handler"

\* Where control goes when a statement of the loop body raises: the whole
\* body is inside the try of line 306, except the adapter calls of step 1,
\* which are inside the try of line 311 as well.
OnException(where) ==
    IF where = "adapter" THEN "adapter_handler" ELSE "handler"

\* capital_limit of line 405.
CapitalLimit ==
    IF MIN_NOTIONAL_USDT * 10 > MIN_NOTIONAL_USDT THEN MIN_NOTIONAL_USDT * 10
    ELSE MIN_NOTIONAL_USDT

\* The condition of line 406.
AlertCondition(best) ==
    best.profit > 0 /\ best.notional >= MIN_NOTIONAL_USDT /\ best.profit >= MIN_PROFIT_USDT

\* As if the quick skip of line 389 were missing.
BelowMinSpread_Never(spc) == FALSE

\* The quick skip of line 389.
BelowMinSpread(spc) == spc < MIN_SPREAD_PCT

\* The skip of line 398.
DepthMissing(bd, sd) == ~Truthy(bd) \/ ~Truthy(sd)

\* ex_map of one exchange, stored only `if ex_map:`.
StoreMarket(tp, ex, m) ==
    IF \E s \in SymbolSet : m[s].has
    THEN [tp EXCEPT ![ex] = [present |-> TRUE, market |-> m]]
    ELSE tp

\* The condition of line 364 with avg_vol set only `if vol:`.
KeepSymbol(v) ==
    LET avg_is_none == v.is_none \/ v.vol = 0
    IN avg_is_none \/ v.vol <= MAX_AVG_VOLUME_USDT

RECURSIVE FilterLowLiq(_, _)
FilterLowLiq(syms, vols) ==
    IF syms = <<>> THEN <<>>
    ELSE (IF "binance" \notin ExchangeSet \/ KeepSymbol(vols[Head(syms)])
          THEN <<Head(syms)>> ELSE <<>>) \o FilterLowLiq(Tail(syms), vols)

HttpIdle ==
    /\ h_pc = "idle" /\ attempt = 0 /\ wait = 0
    /\ h_log = <<>> /\ h_slept = <<>> /\ h_result = "unset"

RunInit ==
    /\ pc = "start"
    /\ exIdx = 1
    /\ topo = [ex \in ExchangeSet |-> NoMarket]
    /\ lowliq_symbols = <<>>
    /\ spreads = <<>>
    /\ candIdx = 1
    /\ buy_depth = NoDepth
    /\ sell_depth = NoDepth
    /\ alerts = <<>>
    /\ alertIdx = 1
    /\ err = "none"
    /\ last_hb = 0
    /\ now = HEARTBEAT_INTERVAL + SCAN_INTERVAL   \* any clock reading past HEARTBEAT_INTERVAL
    /\ scanNo = 0
    /\ telegram = NoMessage
    /\ csvFile = [exists |-> FALSE, rows |-> <<>>]

Init == RunInit /\ HttpIdle

\* Lines 297-304: the start-up message.
RunStart ==
    /\ pc = "start"
    /\ telegram' = send_telegram(telegram, "started", <<>>, 0)
    /\ pc' = "scan"
    /\ UNCHANGED <<exIdx, topo, lowliq_symbols, spreads, candIdx, buy_depth, sell_depth,
                   alerts, alertIdx, err, last_hb, now, scanNo, csvFile, httpVars>>

\* Top of `while True`: topo = {}.  The other locals of the body are rebound
\* before they are read again, so their old values are dropped here.
BeginScan ==
    /\ pc = "scan"
    /\ scanNo < MaxScans
    /\ scanNo' = scanNo + 1
    /\ topo' = [ex \in ExchangeSet |-> NoMarket]
    /\ exIdx' = 1
    /\ lowliq_symbols' = <<>>
    /\ spreads' = <<>>
    /\ alerts' = <<>>
    /\ candIdx' = 1
    /\ alertIdx' = 1
    /\ pc' = "gather"
    /\ UNCHANGED <<buy_depth, sell_depth, err, last_hb, now, telegram, csvFile, httpVars>>

GatherNext ==
    /\ exIdx' = exIdx + 1
    /\ pc' = IF exIdx = Len(EXCHANGES) THEN "volume" ELSE "gather"

GatherFrame ==
    UNCHANGED <<lowliq_symbols, spreads, candIdx, buy_depth, sell_depth, alerts, alertIdx,
                last_hb, now, scanNo, telegram, csvFile, httpVars>>

\* Lines 312-318: one bookTicker request per symbol; fetch_binance_ticker
\* catches its own parse errors.
GatherBinance ==
    /\ pc = "gather" /\ exIdx <= Len(EXCHANGES) /\ EXCHANGES[exIdx] = "binance"
    /\ \E m \in TickerMaps : topo' = StoreMarket(topo, "binance", m)
    /\ GatherNext
    /\ UNCHANGED err
    /\ GatherFrame

\* Lines 319-326 (kucoin) and 342-349 (okx): one all-tickers request.
GatherAllTickers(ex) ==
    /\ pc = "gather" /\ exIdx <= Len(EXCHANGES) /\ EXCHANGES[exIdx] = ex
    /\ \E resp \in AllTickerResponses :
          IF resp.kind = "bad"
          THEN /\ err' = "AdapterError"
               /\ pc' = OnException("adapter")
               /\ UNCHANGED <<topo, exIdx>>
          ELSE /\ topo' = StoreMarket(topo, ex, resp.market)
               /\ GatherNext
               /\ UNCHANGED err
    /\ GatherFrame

GatherKucoin == GatherAllTickers("kucoin")

GatherOkx == GatherAllTickers("okx")

\* Lines 350-352: the adapter's exception is reported and the next exchange
\* is tried.
AdapterHandler ==
    /\ pc = "adapter_handler"
    /\ telegram' = send_telegram(telegram, "adapter_error", <<>>, 0)
    /\ err' = "none"
    /\ GatherNext
    /\ UNCHANGED <<topo, lowliq_symbols, spreads, candIdx, buy_depth, sell_depth, alerts,
                   alertIdx, last_hb, now, scanNo, csvFile, httpVars>>

\* Step 2, lines 355-367.
VolumeFilter ==
    /\ pc = "volume"
    /\ \E vols \in [SymbolSet -> VolResponses] :
          lowliq_symbols' = FilterLowLiq(symbols, vols)
    /\ pc' = "spreads"
    /\ UNCHANGED <<exIdx, topo, spreads, candIdx, buy_depth, sell_depth, alerts, alertIdx,
                   err, last_hb, now, scanNo, telegram, csvFile, httpVars>>

\* Step 3, lines 370-383, and the set-up of step 4, lines 386-387.
ComputeSpreads ==
    /\ pc = "spreads"
    /\ spreads' = ComputeSpreadList(topo, lowliq_symbols)
    /\ alerts' = <<>>
    /\ candIdx' = 1
    /\ pc' = "depth"
    /\ UNCHANGED <<exIdx, topo, lowliq_symbols, buy_depth, sell_depth, alertIdx,
                   err, last_hb, now, scanNo, telegram, csvFile, httpVars>>

Cand == Candidates(spreads)[candIdx]

DepthFrame ==
    UNCHANGED <<exIdx, topo, lowliq_symbols, spreads, last_hb, now, scanNo,
                telegram, csvFile, httpVars>>

\* Lines 389-390.
SkipLowSpread ==
    /\ pc = "depth" /\ candIdx <= Len(Candidates(spreads))
    /\ BelowMinSpread(Cand.spc)
    /\ candIdx' = candIdx + 1
    /\ UNCHANGED <<pc, buy_depth, sell_depth, alerts, alertIdx, err>>
    /\ DepthFrame

\* Lines 392-396: both depth requests (every exchange of topo has a fetcher).
FetchDepth ==
    /\ pc = "depth" /\ candIdx <= Len(Candidates(spreads))
    /\ ~BelowMinSpread(Cand.spc)
    /\ \E rb \in DepthResponses, rs \in DepthResponses :
          LET b == fetch_depth(rb)
              s == fetch_depth(rs)
          IN IF b.raises \/ s.raises
             THEN /\ err' = "DepthError"
                  /\ pc' = OnException("depth")
                  /\ buy_depth' = NoDepth /\ sell_depth' = NoDepth
             ELSE /\ buy_depth' = b.value /\ sell_depth' = s.value
                  /\ pc' = "evaluate"
                  /\ UNCHANGED err
    /\ UNCHANGED <<candIdx, alerts, alertIdx>>
    /\ DepthFrame

\* Lines 398-407.  The depth variables are rebound at line 392 before they
\* are read again, so their values are dropped on leaving the step.
Evaluate ==
    /\ pc = "evaluate"
    /\ IF DepthMissing(buy_depth, sell_depth)
       THEN /\ candIdx' = candIdx + 1 /\ pc' = "depth"
            /\ UNCHANGED <<alerts, err>>
       ELSE LET buy_asks == buy_depth.asks
                sell_bids == sell_depth.bids
            IN IF evaluate_pair_raises(buy_asks, sell_bids)
               THEN /\ err' = "TypeError"
                    /\ pc' = OnException("evaluate")
                    /\ UNCHANGED <<candIdx, alerts>>
               ELSE LET best == evaluate_pair(buy_asks.items, sell_bids.items, 2, 2, CapitalLimit)
                    IN /\ alerts' = IF AlertCondition(best)
                                    THEN Append(alerts, [s |-> Cand.s, a_ex |-> Cand.a_ex,
                                                         b_ex |-> Cand.b_ex, spc |-> Cand.spc,
                                                         best |-> best])
                                    ELSE alerts
                       /\ candIdx' = candIdx + 1 /\ pc' = "depth"
                       /\ UNCHANGED err
    /\ buy_depth' = NoDepth /\ sell_depth' = NoDepth
    /\ UNCHANGED alertIdx
    /\ DepthFrame

\* End of the step 4 loop.
DepthDone ==
    /\ pc = "depth" /\ candIdx > Len(Candidates(spreads))
    /\ pc' = "alert"
    /\ alertIdx' = 1
    /\ UNCHANGED <<candIdx, buy_depth, sell_depth, alerts, err>>
    /\ DepthFrame

AlertFrame ==
    UNCHANGED <<exIdx, topo, lowliq_symbols, spreads, candIdx, buy_depth, sell_depth,
                alerts, last_hb, now, scanNo, httpVars>>

\* Lines 412-418: one CSV row per alert; opening the file may fail.
LogCsv ==
    /\ pc = "alert" /\ alertIdx <= Len(alerts)
    /\ \E opened \in BOOLEAN :
          IF opened
          THEN /\ csvFile' = log_to_csv(csvFile, CsvRow(alerts[alertIdx]))
               /\ alertIdx' = alertIdx + 1
               /\ UNCHANGED <<pc, err>>
          ELSE /\ err' = "OSError"
               /\ pc' = OnException("csv")
               /\ UNCHANGED <<csvFile, alertIdx>>
    /\ UNCHANGED telegram
    /\ AlertFrame

\* Line 419: the alert message, sent only `if alerts:`.
SendAlerts ==
    /\ pc = "alert" /\ alerts # <<>> /\ alertIdx > Len(alerts)
    /\ telegram' = send_telegram(telegram, "alerts", Take(AlertLines(alerts), 4000), now)
    /\ pc' = "heartbeat"
    /\ UNCHANGED <<alertIdx, err, csvFile>>
    /\ AlertFrame

\* Lines 420-422.
NoAlerts ==
    /\ pc = "alert" /\ alerts = <<>>
    /\ pc' = "heartbeat"
    /\ UNCHANGED <<alertIdx, err, csvFile, telegram>>
    /\ AlertFrame

\* Lines 425-427.
Heartbeat ==
    /\ pc = "heartbeat"
    /\ IF now - last_hb > HEARTBEAT_INTERVAL
       THEN /\ telegram' = send_telegram(telegram, "heartbeat", <<>>, 0)
            /\ last_hb' = now
       ELSE UNCHANGED <<telegram, last_hb>>
    /\ pc' = "sleep"
    /\ UNCHANGED <<exIdx, topo, lowliq_symbols, spreads, candIdx, buy_depth, sell_depth,
                   alerts, alertIdx, err, now, scanNo, csvFile, httpVars>>

\* Lines 429-434: the handler of the loop body.
Handler ==
    /\ pc = "handler"
    /\ telegram' = send_telegram(telegram, "runtime_error", <<>>, 0)
    /\ err' = "none"
    /\ pc' = "sleep"
    /\ UNCHANGED <<exIdx, topo, lowliq_symbols, spreads, candIdx, buy_depth, sell_depth,
                   alerts, alertIdx, last_hb, now, scanNo, csvFile, httpVars>>

\* Line 436.
Sleep ==
    /\ pc = "sleep"
    /\ now' = now + SCAN_INTERVAL
    /\ pc' = "scan"
    /\ UNCHANGED <<exIdx, topo, lowliq_symbols, spreads, candIdx, buy_depth, sell_depth,
                   alerts, alertIdx, err, last_hb, scanNo, telegram, csvFile, httpVars>>

Next ==
    \/ RunStart
    \/ BeginScan
    \/ GatherBinance
    \/ GatherKucoin
    \/ GatherOkx
    \/ AdapterHandler
    \/ VolumeFilter
    \/ ComputeSpreads
    \/ SkipLowSpread
    \/ FetchDepth
    \/ Evaluate
    \/ DepthDone
    \/ LogCsv
    \/ SendAlerts
    \/ NoAlerts
    \/ Heartbeat
    \/ Handler
    \/ Sleep

Spec == Init /\ [][Next]_vars


-----------------------------------------------------------------------------
(* http_get(url)                                                           *)

\* RETRY_BACKOFF = 1.6, in tenths; wait starts at 0.6 s (line 56).
RETRY_BACKOFF == 16

\* What one requests.get + raise_for_status + r.json() may do: raise in the
\* request, raise on the status, raise while parsing, or yield a JSON body
\* (null, an empty object, an object with data).
RequestOutcomes ==
    {[ok |-> FALSE, what |-> w] : w \in {"conn_error", "http_error", "bad_json"}}
    \cup {[ok |-> TRUE, what |-> b] : b \in {"null", "empty", "data"}}

\* r.json(): JSON null parses to None.
ParseJson(body) == IF body = "null" THEN "None" ELSE body

\* As if the loop ran while attempt <= MAX_RETRIES.
HttpContinue_OffByOne(a) == a <= MAX_RETRIES

\* The loop condition of line 57.
HttpContinue(a) == a < MAX_RETRIES

\* Where control goes when the try body of lines 59-61 raises.
HttpOnException == "except"

HttpStart ==
    /\ h_pc = "loop" /\ attempt = 0 /\ wait = 6000
    /\ h_log = <<>> /\ h_slept = <<>> /\ h_result = "unset"

InitHttp == RunInit /\ HttpStart

\* Line 57, and line 66 when the loop ends.
HttpLoop ==
    /\ h_pc = "loop"
    /\ IF HttpContinue(attempt)
       THEN h_pc' = "request" /\ UNCHANGED h_result
       ELSE h_pc' = "returned" /\ h_result' = "None"
    /\ UNCHANGED <<attempt, wait, h_log, h_slept, runVars>>

\* Lines 59-61.
HttpRequest ==
    /\ h_pc = "request"
    /\ \E o \in RequestOutcomes :
          /\ h_log' = Append(h_log, o)
          /\ IF o.ok
             THEN h_pc' = "returned" /\ h_result' = ParseJson(o.what)
             ELSE h_pc' = HttpOnException /\ UNCHANGED h_result
    /\ UNCHANGED <<attempt, wait, h_slept, runVars>>

\* Lines 62-65.
HttpExcept ==
    /\ h_pc = "except"
    /\ attempt' = attempt + 1
    /\ h_slept' = Append(h_slept, wait)
    /\ wait' = (wait * RETRY_BACKOFF) \div 10
    /\ h_pc' = "loop"
    /\ UNCHANGED <<h_log, h_result, runVars>>

NextHttp == HttpLoop \/ HttpRequest \/ HttpExcept

\* A call of http_get runs to its end: every statement is executed.
SpecHttp == InitHttp /\ [][NextHttp]_vars /\ WF_vars(NextHttp)


-----------------------------------------------------------------------------
(* Properties                                                              *)

IsPrefix(a, b) == Len(a) <= Len(b) /\ SubSeq(b, 1, Len(a)) = a

\* The exchanges that quoted symbol s in this scan.
QuotingExchanges(s) == {ex \in ExchangeSet : topo[ex].present /\ topo[ex].market[s].has}

AskOf(ex, s) == topo[ex].market[s].ask

BidOf(ex, s) == topo[ex].market[s].bid

NonZeroAsks(s) == {AskOf(ex, s) : ex \in QuotingExchanges(s)} \ {0}

NonZeroBids(s) == {BidOf(ex, s) : ex \in QuotingExchanges(s)} \ {0}

LowestAsk(s) == CHOOSE a \in NonZeroAsks(s) : \A b \in NonZeroAsks(s) : a <= b

HighestBid(s) == CHOOSE a \in NonZeroBids(s) : \A b \in NonZeroBids(s) : a >= b

\* The statement raised an exception in this step.
Raised == err = "none" /\ err' # "none"

LoopPcs == {"start", "scan", "gather", "adapter_handler", "volume", "spreads", "depth",
            "evaluate", "alert", "heartbeat", "handler", "sleep"}

\* The loop's handler attempts the error notification and falls through to
\* the sleep; the sleep lasts SCAN_INTERVAL and is followed by the next scan
\* iteration; control never leaves the loop.
HandlerSleepsAndLoops ==
    /\ pc = "handler" => telegram'.kind = "runtime_error" /\ pc' = "sleep"
    /\ pc = "sleep" => now' = now + SCAN_INTERVAL /\ pc' = "scan"
    /\ pc = "scan" => pc' = "gather" /\ scanNo' = scanNo + 1
    /\ pc' \in LoopPcs

\* C1 as stated: every exception raised inside a scan iteration, ticker
\* gathering included, is caught by the handler of the loop, which notifies,
\* sleeps and starts the next scan; run() never leaves the loop.
C1_EveryExceptionToLoopHandler ==
    [][(Raised => pc' = "handler") /\ HandlerSleepsAndLoops]_vars

\* C1 amended: an exception raised by an adapter during ticker gathering is
\* caught by the per-exchange handler, which attempts an adapter-error
\* notification and goes on with the next exchange of the same scan; an
\* exception raised in any later step is caught by the handler of the loop,
\* which attempts the error notification, sleeps SCAN_INTERVAL and starts
\* the next scan; run() never leaves the loop.
C1_ExceptionsAreCaught ==
    [][/\ Raised => IF pc = "gather" THEN pc' = "adapter_handler" ELSE pc' = "handler"
       /\ pc = "adapter_handler" =>
             /\ telegram'.kind = "adapter_error"
             /\ pc' \in {"gather", "volume"}
             /\ exIdx' = exIdx + 1 /\ scanNo' = scanNo
       /\ HandlerSleepsAndLoops]_vars

\* A second scan has begun after the first one was aborted by an exception
\* and reported.
C1_Witness == scanNo = 2 /\ pc = "gather" /\ telegram.kind = "runtime_error"

\* The depth tuple (None, None) of a failed adapter.
IsNoneNone(d) == ~d.is_none /\ d.bids.is_none /\ d.asks.is_none

\* C2: when the depth of the buy or of the sell exchange is (None, None),
\* the candidate is skipped: the step 4 loop goes on with the next candidate,
\* no exception is raised and the alerts gathered so far are kept.
C2_MissingDepthSkipsCandidate ==
    [][(pc = "evaluate" /\ (IsNoneNone(buy_depth) \/ IsNoneNone(sell_depth)))
         => (pc' = "depth" /\ candIdx' = candIdx + 1 /\ alerts' = alerts /\ err' = "none")]_vars

\* The symbols an alert message names.
MessageSymbols(lines) == Range(lines) \cap SymbolSet

\* Alert entry a passes every configured filter, the spread being taken
\* from the quotes of this scan.
Qualifies(a) ==
    /\ NonZeroAsks(a.s) # {} /\ NonZeroBids(a.s) # {}
    /\ ((HighestBid(a.s) - LowestAsk(a.s)) * 1000000) \div LowestAsk(a.s) >= MIN_SPREAD_PCT
    /\ a.best.profit > 0
    /\ a.best.profit >= MIN_PROFIT_USDT
    /\ a.best.notional >= MIN_NOTIONAL_USDT

\* C3: every symbol of an alert message, and every symbol written to the
\* CSV file, passes all filters at once (spread percent >= MIN_SPREAD_PCT,
\* profit > 0 and >= MIN_PROFIT_USDT, notional >= MIN_NOTIONAL_USDT), and an
\* alert message names at least one such symbol.
C3_AlertedSymbolsPassFilters ==
    [][/\ (telegram' # telegram /\ telegram'.kind = "alerts") =>
             /\ MessageSymbols(telegram'.lines) # {}
             /\ \A sym \in MessageSymbols(telegram'.lines) :
                   \E i \in 1..Len(alerts) : alerts[i].s = sym /\ Qualifies(alerts[i])
       /\ csvFile' # csvFile =>
             \E i \in 1..Len(alerts) :
                /\ alerts[i].s = csvFile'.rows[Len(csvFile'.rows)]
                /\ Qualifies(alerts[i])]_vars

\* An alert message naming both symbols has been sent and logged.
C3_Witness ==
    /\ pc = "heartbeat" /\ telegram.kind = "alerts"
    /\ MessageSymbols(telegram.lines) = SymbolSet
    /\ Len(csvFile.rows) >= 3

AllFailed(log) == \A i \in 1..Len(log) : ~log[i].ok

\* What C4 says apart from the None result: at most MAX_RETRIES requests,
\* none after a success, the body of the successful attempt returned, no
\* exception leaves the function, one sleep per failed attempt.
HttpCommon ==
    /\ Len(h_log) <= MAX_RETRIES
    /\ \A i \in 1..(Len(h_log) - 1) : ~h_log[i].ok
    /\ h_pc \in {"loop", "request", "except", "returned"}
    /\ Len(h_slept) = Cardinality({i \in 1..Len(h_log) : ~h_log[i].ok})
                      - (IF h_pc = "except" THEN 1 ELSE 0)
    /\ (h_pc = "returned" /\ h_log # <<>> /\ h_log[Len(h_log)].ok) =>
          /\ h_log[Len(h_log)].what # "null" => h_result = h_log[Len(h_log)].what
          /\ h_log[Len(h_log)].what = "null" => h_result = "None"

\* C4 as stated: the result is None exactly when MAX_RETRIES consecutive
\* attempts have failed.
C4_NoneExactlyWhenAllFailed ==
    /\ HttpCommon
    /\ h_pc = "returned" =>
          (h_result = "None" <=> (Len(h_log) = MAX_RETRIES /\ AllFailed(h_log)))

\* C4 amended: http_get terminates after at most MAX_RETRIES requests,
\* makes no request after a success and returns that attempt's parsed body,
\* never raises, sleeps once after each failed attempt, and returns None
\* when MAX_RETRIES consecutive attempts have failed; it returns None
\* otherwise only when the body of the successful attempt is JSON null.
C4_HttpGetTerminates ==
    /\ [](/\ HttpCommon
          /\ h_pc = "returned" =>
                (h_result = "None" <=>
                    \/ (Len(h_log) = MAX_RETRIES /\ AllFailed(h_log))
                    \/ (h_log # <<>> /\ h_log[Len(h_log)].ok
                        /\ h_log[Len(h_log)].what = "null")))
    /\ <>(h_pc = "returned")

\* http_get has returned None after MAX_RETRIES failed requests and as
\* many sleeps.
C4_Witness ==
    /\ h_pc = "returned" /\ h_result = "None"
    /\ Len(h_log) = MAX_RETRIES /\ AllFailed(h_log) /\ Len(h_slept) = MAX_RETRIES

\* C5 as stated: no step of a scan changes state outside process memory.
C5_NothingPersisted == [][csvFile' = csvFile]_vars

\* C5 amended: the only state outside process memory a scan changes is the
\* CSV log, and only by appending: step 5 adds one row per alert (after the
\* header when the file is new) and nothing already in the file is changed.
C5_OnlyCsvRowsAppended ==
    [][csvFile' # csvFile =>
          /\ pc = "alert" /\ alertIdx <= Len(alerts)
          /\ csvFile'.exists
          /\ IsPrefix(csvFile.rows, csvFile'.rows)
          /\ csvFile'.rows =
                (IF csvFile.exists THEN csvFile.rows ELSE <<HeaderRow>>)
                \o <<alerts[alertIdx].s>>]_vars

\* The second scan has appended to the file the first scan left.
C5_Witness == scanNo = 2 /\ Len(csvFile.rows) >= 4

\* C6 as stated: the buy side of every spread entry is the exchange with
\* the lowest ask and the sell side the exchange with the highest bid among
\* all exchanges that quoted the symbol, and the two differ.
C6_BestAmongAllQuotes ==
    \A i \in 1..Len(spreads) :
       LET e == spreads[i]
           Q == QuotingExchanges(e.s)
       IN /\ e.a_ex \in Q /\ e.b_ex \in Q /\ e.a_ex # e.b_ex
          /\ \A x \in Q : AskOf(e.a_ex, e.s) <= AskOf(x, e.s)
          /\ \A x \in Q : BidOf(e.b_ex, e.s) >= BidOf(x, e.s)

\* C6 amended: the buy side is the exchange with the lowest non-zero ask
\* and the sell side the exchange with the highest non-zero bid among the
\* exchanges that quoted the symbol (a zero price counts as no quote); an
\* entry exists only when the two differ; every alert comes from such an
\* entry, so it never names one exchange twice and its symbol was quoted by
\* at least two exchanges.
C6_BestAmongNonZeroQuotes ==
    /\ \A i \in 1..Len(spreads) :
          LET e == spreads[i]
              Q == QuotingExchanges(e.s)
          IN /\ e.a_ex \in Q /\ e.b_ex \in Q /\ e.a_ex # e.b_ex
             /\ e.s \in Range(lowliq_symbols)
             /\ AskOf(e.a_ex, e.s) = LowestAsk(e.s) /\ e.a_price = LowestAsk(e.s)
             /\ BidOf(e.b_ex, e.s) = HighestBid(e.s) /\ e.b_price = HighestBid(e.s)
    /\ \A i \in 1..Len(alerts) :
          /\ alerts[i].a_ex # alerts[i].b_ex
          /\ Cardinality(QuotingExchanges(alerts[i].s)) >= 2
          /\ \E j \in 1..Len(spreads) :
                /\ spreads[j].s = alerts[i].s
                /\ spreads[j].a_ex = alerts[i].a_ex
                /\ spreads[j].b_ex = alerts[i].b_ex

\* An alert for a symbol that three exchanges quoted, one of them with a
\* zero ask.
C6_Witness ==
    /\ alerts # <<>>
    /\ Cardinality(QuotingExchanges(alerts[1].s)) = 3
    /\ \E ex \in QuotingExchanges(alerts[1].s) : AskOf(ex, alerts[1].s) = 0

=============================================================================
